---- MODULE Spec2Model ----
(***************************************************************************)
(* State-machine model of src/src/bip39.cpp (class BIP39): the builder     *)
(* BIP39(wordCount) / useEntropy / generateSecureEntropy / wordList /      *)
(* mnemonic / reverse and the static entry points Entropy, Generate and    *)
(* Words.                                                                  *)
(*                                                                         *)
(* Strings are sequences: a hex string is a sequence of one-character      *)
(* strings, a bit string a sequence of 0/1, a byte string a sequence of    *)
(* 0..255, a phrase a sequence of character codes.  A std::bitset<11> is   *)
(* its unsigned value.                                                     *)
(***************************************************************************)
EXTENDS Integers, Sequences, FiniteSets, TLC

VARIABLES
    s,          \* the BIP39 object most recently constructed (the session)
    res,        \* what the most recent call returned or threw
    op,         \* the most recent call and its arguments
    pc,         \* position inside generateSecureEntropy: idle / loop / encode
    bytes,      \* generateSecureEntropy: the malloc'ed buffer
    read_bytes, \* generateSecureEntropy: read_bytes
    n,          \* generateSecureEntropy: last return value of the syscall
    errno,      \* errno left by the last failed syscall
    retries     \* transient failures the OS has produced in this call

vars == <<s, res, op, pc, bytes, read_bytes, n, errno, retries>>

---------------------------------------------------------------------------
(* Bounds of the model. *)

\* useEntropy calls accepted on one session
MaxBind == 2
\* EINTR/EAGAIN answers the OS gives within one generateSecureEntropy call
MaxRetry == 2
\* non-NUL bytes lying in memory right behind the malloc'ed buffer
MaxTail == 4

---------------------------------------------------------------------------
(* Small helpers over sequences. *)

Min(a, b) == IF a < b THEN a ELSE b

\* std::string::substr(pos, count), pos 0-based
SubStr(str, pos, count) == SubSeq(str, pos + 1, Min(pos + count, Len(str)))

\* the w-character binary rendering of v (std::bitset<w>::to_string)
Bits(v, w) == [i \in 1..w |-> (v \div (2 ^ (w - i))) % 2]

\* the unsigned value of a bit string (std::bitset<11>(string).to_ulong())
RECURSIVE BitsVal(_)
BitsVal(b) == IF b = <<>> THEN 0 ELSE 2 * BitsVal(SubSeq(b, 1, Len(b) - 1)) + b[Len(b)]

Repeat(x, k) == [i \in 1..k |-> x]

---------------------------------------------------------------------------
(* utils.h (BIP39_Utils), sha2.hpp and the Wordlist class are not part of   *)
(* the translated source file; they are modelled from their use and from   *)
(* the design document.                                                    *)

HexLower == <<"0","1","2","3","4","5","6","7","8","9","a","b","c","d","e","f">>
HexUpper == <<"0","1","2","3","4","5","6","7","8","9","A","B","C","D","E","F">>

IsHexChar(c) == \E i \in 1..16 : HexLower[i] = c \/ HexUpper[i] = c
HexVal(c) == (CHOOSE i \in 1..16 : HexLower[i] = c \/ HexUpper[i] = c) - 1

\* BIP39_Utils::isHex
isHex(str) == \A i \in 1..Len(str) : IsHexChar(str[i])

\* BIP39_Utils::hex_char_to_bin: case-insensitive, four characters '0'/'1'
hex_char_to_bin(c) == Bits(HexVal(c), 4)

\* BIP39_Utils::bin_str_to_hex: one hex digit for a value 0..15
bin_str_to_hex(j) == HexLower[j + 1]

\* BIP39_Utils::base16Decode / base16Encode
base16Decode(hex) ==
    [i \in 1..(Len(hex) \div 2) |-> 16 * HexVal(hex[2 * i - 1]) + HexVal(hex[2 * i])]
base16Encode(bin) ==
    [k \in 1..(2 * Len(bin)) |->
        LET b == bin[(k + 1) \div 2]
        IN  HexLower[(IF k % 2 = 1 THEN b \div 16 ELSE b % 16) + 1]]

\* BIP39_Utils::hashEquals: equality of two strings
hashEquals(a, b) == a = b

\* sha256_Raw, first digest byte: an opaque deterministic function of the bytes
RECURSIVE Sha256Mix(_, _, _)
Sha256Mix(msg, i, h) ==
    IF i > Len(msg) THEN h
    ELSE Sha256Mix(msg, i + 1, (h * 33 + msg[i] + 7 * i) % 256)
sha256_Raw0(msg) == Sha256Mix(msg, 1, (79 + 3 * Len(msg)) % 256)

\* Wordlists a caller can pass: nullptr, the 2048-word English list, a list
\* with no words.  A session that never had wordList() called holds "unbound".
WordlistArgs == {"null", "english", "blank"}

\* Wordlist::empty
WordlistEmpty(wl) == wl # "english"

\* A word is a string of character codes; the word with index i is one code.
\* Wordlist::getWord
getWord(index) == <<index + 100>>

\* Wordlist::findIndex: the index, or a negative value
findIndex(word) ==
    IF Len(word) = 1 /\ word[1] - 100 \in 0..2047 THEN word[1] - 100 ELSE 0 - 1

---------------------------------------------------------------------------
(* Values. *)

NoMnemonic ==
    [words |-> <<>>, wordsIndex |-> <<>>, rawBinaryChunks |-> <<>>,
     entropy |-> <<>>, m_wordsCount |-> 0]

\* a call that returned a Mnemonic
Returned(mn) == [kind |-> "mnemonic", msg |-> "", mn |-> mn, wild |-> FALSE]
\* a call that returned the builder
Chained == [kind |-> "session", msg |-> "", mn |-> NoMnemonic, wild |-> FALSE]
\* a call that threw MnemonicException(msg)
Threw(msg) == [kind |-> "error", msg |-> msg, mn |-> NoMnemonic, wild |-> FALSE]
NoResult == [kind |-> "none", msg |-> "", mn |-> NoMnemonic, wild |-> FALSE]

\* the members of BIP39; live (the caller still holds the object) and binds
\* (how often entropy was bound to it) are bookkeeping of the model
NoSession ==
    [live |-> FALSE, m_wordsCount |-> 0, m_overallBits |-> 0, m_checksumBits |-> 0,
     m_entropyBits |-> 0, m_entropy |-> <<>>, m_checksum |-> <<>>,
     m_rawBinaryChunks |-> <<>>, m_wordList |-> "unbound", binds |-> 0]

\* the last call: its name and arguments; for Words also the entropy its
\* phrase was encoded from and how the phrase was varied; hard: the loop of
\* generateSecureEntropy was left before all bytes were read
NoOp ==
    [name |-> "none", W |-> 0, e |-> <<>>, phrase |-> <<>>, mut |-> "none", k |-> 0,
     verify |-> FALSE, wl |-> "null", hard |-> FALSE]

---------------------------------------------------------------------------
(* BIP39::BIP39(int wordCount) *)

\* the constructor without its multiple-of-3 test
ValidWordCount_RangeOnly(wordCount) == ~(wordCount < 12 \/ wordCount > 24)

ValidWordCount(wordCount) ==
    ~(wordCount < 12 \/ wordCount > 24) /\ ~(wordCount % 3 # 0)

\* the checksum width starting from 3 bits instead of 4
ChecksumBitsOf_FromThree(wordCount) == ((wordCount - 12) \div 3) + 3

ChecksumBitsOf(wordCount) == ((wordCount - 12) \div 3) + 4

Construct(wordCount) ==
    [NoSession EXCEPT
        !.live = TRUE,
        !.m_wordsCount = wordCount,
        !.m_overallBits = wordCount * 11,
        !.m_checksumBits = ChecksumBitsOf(wordCount),
        !.m_entropyBits = wordCount * 11 - ChecksumBitsOf(wordCount)]

---------------------------------------------------------------------------
(* BIP39::validateEntropy, hex2bits, bits2hex, len_to_mask, checksum *)

validateEntropy(entropy) ==
    /\ isHex(entropy)
    /\ Len(entropy) * 4 \in {128, 160, 192, 224, 256}

hex2bits(hex) ==
    [k \in 1..(4 * Len(hex)) |->
        hex_char_to_bin(hex[((k - 1) \div 4) + 1])[((k - 1) % 4) + 1]]

\* bits2hex reads each 4-character group through `final`, the c_str() of a
\* temporary that is destroyed before the read.  stale = <<>>: the storage is
\* still intact and the read sees the group; otherwise the read sees whatever
\* four characters the storage holds by then.
StaleReads == {<<>>, <<0, 0, 0, 0>>, <<1, 0, 1, 0>>, <<1, 1, 1, 1>>}

bits2hex(bits, stale) ==
    [g \in 1..((Len(bits) + 3) \div 4) |->
        LET final == IF stale = <<>> THEN SubStr(bits, 4 * (g - 1), 4) ELSE stale
        IN  IF Len(final) < 4 THEN "?"
            ELSE bin_str_to_hex(8 * final[1] + 4 * final[2] + 2 * final[3] + final[4])]

len_to_mask(len) ==
    CASE len = 128 -> 240
      [] len = 160 -> 248
      [] len = 192 -> 252
      [] len = 224 -> 254
      [] len = 256 -> 255
      [] OTHER -> 0

\* (checksumChar & mask) >> shift for a mask of the top 8-shift bits
MaskShift(checksumChar, shift) == checksumChar \div (2 ^ shift)

checksum(sess, entropy) ==
    LET checksumChar == sha256_Raw0(base16Decode(entropy))
        mask == len_to_mask(sess.m_entropyBits)
    IN  CASE mask = 240 -> Bits(MaskShift(checksumChar, 4), 4)
          [] mask = 248 -> Bits(MaskShift(checksumChar, 3), 5)
          [] mask = 252 -> Bits(MaskShift(checksumChar, 2), 6)
          [] mask = 254 -> Bits(MaskShift(checksumChar, 1), 7)
          [] mask = 255 -> Bits(MaskShift(checksumChar, 0), 8)
          [] OTHER -> <<>>

---------------------------------------------------------------------------
(* BIP39::useEntropy, wordList, mnemonic: the value each leaves or returns *)

\* the 11-character pieces of str, each as a bitset<11>
Chunks(str) ==
    [c \in 1..((Len(str) + 10) \div 11) |-> BitsVal(SubStr(str, 11 * (c - 1), 11))]

\* the session after a successful useEntropy(entropy)
useEntropy(sess, entropy) ==
    LET cs == checksum(sess, entropy)
        str == hex2bits(entropy) \o cs
    IN  [sess EXCEPT
            !.m_entropy = entropy,
            !.m_checksum = cs,
            !.m_rawBinaryChunks = sess.m_rawBinaryChunks \o Chunks(str),
            !.binds = sess.binds + 1]

\* the Mnemonic mnemonic() assembles from a session with a readable wordlist
Assemble(sess) ==
    [words |-> [i \in 1..Len(sess.m_rawBinaryChunks) |-> getWord(sess.m_rawBinaryChunks[i])],
     wordsIndex |-> sess.m_rawBinaryChunks,
     rawBinaryChunks |-> sess.m_rawBinaryChunks,
     entropy |-> sess.m_entropy,
     m_wordsCount |-> Len(sess.m_rawBinaryChunks)]

\* What dereferencing m_wordList does when wordList() was never called: the
\* pointer was never assigned.  The process may die, or the read may go
\* through and find "empty" or "not empty".
WildReads == {"segfault", "empty", "nonempty"}

\* mnemonic(): wild is the outcome of the dereference, used only if unbound
mnemonic(sess, wild) ==
    IF sess.m_entropy = <<>> THEN Threw("Entropy is empty")
    ELSE IF sess.m_wordList = "unbound" THEN
        CASE wild = "segfault" ->
                [kind |-> "crash", msg |-> "", mn |-> NoMnemonic, wild |-> TRUE]
          [] wild = "empty" ->
                [Threw("Wordlist is empty") EXCEPT !.wild = TRUE]
          [] OTHER ->
                [Returned([Assemble(sess) EXCEPT
                    !.words = [i \in 1..Len(sess.m_rawBinaryChunks) |-> <<99>>]])
                 EXCEPT !.wild = TRUE]
    ELSE IF WordlistEmpty(sess.m_wordList) THEN Threw("Wordlist is empty")
    ELSE Returned(Assemble(sess))

---------------------------------------------------------------------------
(* BIP39::Words and BIP39::reverse *)

\* the delimiter of std::getline(w, word, ' ')
Space == 32

\* the std::getline loop of Words: the pieces between delimiters; a piece is
\* produced at the end of input only if it holds at least one character
RECURSIVE SplitFrom(_, _, _)
SplitFrom(phrase, i, word) ==
    IF i > Len(phrase) THEN (IF word = <<>> THEN <<>> ELSE <<word>>)
    ELSE IF phrase[i] = Space THEN <<word>> \o SplitFrom(phrase, i + 1, <<>>)
    ELSE SplitFrom(phrase, i + 1, Append(word, phrase[i]))
Split(phrase) == SplitFrom(phrase, 1, <<>>)

\* the words before the first one findIndex does not know (all, if none)
RECURSIVE KnownPrefix(_, _)
KnownPrefix(words, i) ==
    IF i > Len(words) \/ findIndex(words[i]) < 0 THEN i - 1
    ELSE KnownPrefix(words, i + 1)

\* rawBinary: the to_string() of every chunk, concatenated
RawBinary(chunks) ==
    [k \in 1..(11 * Len(chunks)) |-> Bits(chunks[((k - 1) \div 11) + 1], 11)[((k - 1) % 11) + 1]]

\* reverse(words, verifyChecksum) on a session whose wordlist is bound;
\* stale is what bits2hex's read of the destroyed temporary sees
reverse(sess, words, verifyChecksum, stale) ==
    IF WordlistEmpty(sess.m_wordList) THEN Threw("Wordlist is empty")
    ELSE
    LET known == KnownPrefix(words, 1)
        index == [i \in 1..known |-> findIndex(words[i])]
        partial == [NoMnemonic EXCEPT
                        !.words = SubSeq(words, 1, known),
                        !.wordsIndex = index,
                        !.rawBinaryChunks = index,
                        !.m_wordsCount = known]
    IN  IF known < Len(words) THEN Returned(partial)
        ELSE
        LET rawBinary == RawBinary(index)
            entropyBits == SubStr(rawBinary, 0, sess.m_entropyBits)
            checksumBits == SubStr(rawBinary, sess.m_entropyBits, sess.m_checksumBits)
            entropy == bits2hex(entropyBits, stale)
        IN  IF verifyChecksum /\ ~hashEquals(checksumBits, checksum(sess, entropy))
            THEN Threw("Entropy checksum match failed!")
            ELSE Returned([partial EXCEPT !.entropy = entropy])

---------------------------------------------------------------------------
(* BIP39::generateSecureEntropy (the branch compiled when _WIN32 is not set) *)

\* errno values syscall(SYS_getrandom, ...) can leave
Errnos == {"ENOSYS", "EINTR", "EAGAIN", "EIO"}

\* the failures the operating system reports only for a while
Transient(e) == e \in {"EINTR", "EAGAIN"}

\* the loop retrying on every failure but ENOSYS
AfterFailure_RetryAll(e) == IF e = "ENOSYS" THEN "encode" ELSE "loop"

\* where control goes after the syscall returned -1 with errno e
AfterFailure(e) ==
    IF e = "ENOSYS" THEN "encode"
    ELSE IF e = "EINTR" \/ e = "EAGAIN" THEN "loop"
    ELSE "encode"

\* std::string bin_rand{reinterpret_cast<char*>(bytes)}: the characters up
\* to the first NUL, wherever that lies
RECURSIVE CStr(_, _)
CStr(mem, i) ==
    IF i > Len(mem) \/ mem[i] = 0 THEN SubSeq(mem, 1, i - 1) ELSE CStr(mem, i + 1)

\* what malloc'ed memory holds before it is written, what the OS delivers,
\* and how many bytes it delivers in one call
HeapBytes == {0, 65}
RandomBytes == {0, 171}
ReadCounts(amount_to_read) == {amount_to_read} \cup {c \in {16} : c < amount_to_read}

---------------------------------------------------------------------------
(* Inputs. *)

WordCountInputs == 10..26

\* hex strings of the given length: a short head, padded with '0'
Pad(head, len) == head \o Repeat("0", len - Len(head))
Heads == {<<>>, <<"f", "f">>, <<"a", "B">>, <<"7", "g">>}
EntropyInputs ==
    {Pad(h, l) : h \in Heads, l \in {28, 32, 40, 48, 56, 64, 68}}
BuilderEntropyInputs ==
    {Pad(<<>>, 32), Pad(<<>>, 36), Pad(<<"a", "B">>, 64)}

\* phrases: the words of an encoded Mnemonic written out, or a variation of it
RECURSIVE Join(_)
Join(words) ==
    IF words = <<>> THEN <<>>
    ELSE IF Len(words) = 1 THEN words[1]
    ELSE words[1] \o <<Space>> \o Join(Tail(words))

FlipBit(bits, pos) == [bits EXCEPT ![pos] = 1 - bits[pos]]

PhraseOf(mn, entropyBits, mut, k) ==
    LET ws == mn.words
        W == Len(ws)
    IN  CASE mut = "same" -> Join(ws)
          [] mut = "trail" -> Join(ws) \o <<Space>>
          [] mut = "gap" -> Join(SubSeq(ws, 1, k)) \o <<Space, Space>> \o Join(SubSeq(ws, k + 1, W))
          [] mut = "glue" -> Join(SubSeq(ws, 1, k)) \o Join(SubSeq(ws, k + 1, W))
          [] mut = "drop" -> Join(SubSeq(ws, 1, W - k))
          [] mut = "unknown" -> Join([ws EXCEPT ![k] = <<99>>])
          [] mut = "flip" ->
                LET flipped == Chunks(FlipBit(RawBinary(mn.rawBinaryChunks), entropyBits + k))
                IN  Join([i \in 1..Len(flipped) |-> getWord(flipped[i])])

Variations(W, checksumBits) ==
    {<<"same", 0>>, <<"trail", 0>>, <<"gap", 1>>, <<"glue", 1>>, <<"drop", 1>>, <<"drop", 3>>}
    \cup {<<"flip", k>> : k \in 1..checksumBits}
    \cup {<<"unknown", k>> : k \in {1, 2, W}}

---------------------------------------------------------------------------
(* Actions: the builder. *)

Init ==
    /\ s = NoSession
    /\ res = NoResult
    /\ op = NoOp
    /\ pc = "idle"
    /\ bytes = <<>>
    /\ read_bytes = 0
    /\ n = 0
    /\ errno = "none"
    /\ retries = 0

GenUnchanged == UNCHANGED <<pc, bytes, read_bytes, n, errno, retries>>

\* The driver works on one object at a time: the entry points below start from
\* a fresh state, and Drop (the destructors running) leads back to it.
Fresh == pc = "idle" /\ op = NoOp

\* BIP39 b(wordCount)
NewSession ==
    /\ Fresh
    /\ \E wordCount \in WordCountInputs :
        /\ op' = [NoOp EXCEPT !.name = "BIP39", !.W = wordCount]
        /\ IF ValidWordCount(wordCount)
           THEN s' = Construct(wordCount) /\ res' = Chained
           ELSE s' = NoSession /\ res' = Threw("Mnemonic words count")
    /\ GenUnchanged

\* b.useEntropy(entropy)
UseEntropy ==
    /\ pc = "idle"
    /\ s.live
    /\ s.binds < MaxBind
    /\ \E entropy \in BuilderEntropyInputs :
        /\ op' = [NoOp EXCEPT !.name = "useEntropy", !.e = entropy]
        /\ IF validateEntropy(entropy)
           THEN s' = useEntropy(s, entropy) /\ res' = Chained
           ELSE s' = s /\ res' = Threw("Invalid Entropy")
    /\ GenUnchanged

\* b.wordList(wordlist)
WordList ==
    /\ pc = "idle"
    /\ s.live
    /\ \E wordlist \in WordlistArgs :
        /\ op' = [NoOp EXCEPT !.name = "wordList", !.wl = wordlist]
        /\ IF wordlist = "null"
           THEN s' = s /\ res' = Threw("Invalid wordlist - wordList()")
           ELSE s' = [s EXCEPT !.m_wordList = wordlist] /\ res' = Chained
    /\ GenUnchanged

\* b.mnemonic()
Finalize ==
    /\ pc = "idle"
    /\ s.live
    /\ \E wild \in WildReads :
        /\ op' = [NoOp EXCEPT !.name = "mnemonic"]
        /\ res' = mnemonic(s, wild)
        /\ s' = s
    /\ GenUnchanged

---------------------------------------------------------------------------
(* Actions: the static entry points. *)

\* wordsCount as BIP39::Entropy derives it from the length of the hex string
WordsCountOf(entropyLen) ==
    LET entropyBits == entropyLen * 4
        checksumBits == ((entropyBits - 128) \div 32) + 4
    IN  (entropyBits + checksumBits) \div 11

\* BIP39::Entropy(entropy); the temporary session is kept in s, not live
EntropyApi ==
    /\ Fresh
    /\ \E entropy \in EntropyInputs :
        /\ op' = [NoOp EXCEPT !.name = "Entropy", !.e = entropy]
        /\ IF ~validateEntropy(entropy)
           THEN s' = NoSession /\ res' = Threw("Invalid Entropy")
           ELSE IF ~ValidWordCount(WordsCountOf(Len(entropy)))
           THEN s' = NoSession /\ res' = Threw("Mnemonic words count")
           ELSE LET b == [useEntropy(Construct(WordsCountOf(Len(entropy))), entropy)
                            EXCEPT !.m_wordList = "english"]
                IN  /\ s' = [b EXCEPT !.live = FALSE]
                    /\ res' = mnemonic(b, "segfault")
    /\ GenUnchanged

\* BIP39::Words(words, wordlist, verifyChecksum) on a phrase made from the
\* Mnemonic the preceding BIP39::Entropy call returned
WordsApi ==
    /\ pc = "idle"
    /\ op.name = "Entropy"
    /\ res.kind = "mnemonic"
    /\ \E v \in Variations(s.m_wordsCount, s.m_checksumBits),
          wordlist \in WordlistArgs, verifyChecksum \in BOOLEAN, stale \in StaleReads :
        LET phrase == PhraseOf(res.mn, s.m_entropyBits, v[1], v[2])
            spWords == Split(phrase)
            wordCount == Len(spWords)
        IN  /\ op' = [NoOp EXCEPT !.name = "Words", !.e = op.e, !.phrase = phrase,
                        !.mut = v[1], !.k = v[2], !.verify = verifyChecksum,
                        !.wl = wordlist]
            /\ IF wordlist = "null"
               THEN s' = NoSession /\ res' = Threw("Invalid wordlist")
               ELSE IF ~ValidWordCount(wordCount)
               THEN s' = NoSession /\ res' = Threw("Mnemonic words count")
               ELSE LET b == [Construct(wordCount) EXCEPT !.m_wordList = wordlist]
                    IN  /\ s' = [b EXCEPT !.live = FALSE]
                        /\ res' = reverse(b, spWords, verifyChecksum, stale)
    /\ GenUnchanged

\* generateSecureEntropy up to the loop: read_bytes = 0, bytes = malloc(size)
EnterLoop(sess, heap) ==
    /\ pc' = "loop"
    /\ bytes' = Repeat(heap, sess.m_entropyBits \div 8)
    /\ read_bytes' = 0
    /\ n' = 0
    /\ errno' = "none"
    /\ retries' = 0

\* BIP39::Generate(wordCount), up to the loop of generateSecureEntropy
GenerateApi ==
    /\ Fresh
    /\ \E wordCount \in WordCountInputs, heap \in HeapBytes :
        /\ op' = [NoOp EXCEPT !.name = "Generate", !.W = wordCount]
        /\ IF ValidWordCount(wordCount)
           THEN /\ s' = [Construct(wordCount) EXCEPT !.live = FALSE]
                /\ res' = NoResult
                /\ EnterLoop(Construct(wordCount), heap)
           ELSE /\ s' = NoSession
                /\ res' = Threw("Mnemonic words count")
                /\ GenUnchanged

\* b.generateSecureEntropy(), up to the loop
GenerateSecureEntropy ==
    /\ pc = "idle"
    /\ s.live
    /\ s.binds < MaxBind
    /\ \E heap \in HeapBytes :
        /\ op' = [NoOp EXCEPT !.name = "generateSecureEntropy"]
        /\ s' = s
        /\ res' = NoResult
        /\ EnterLoop(s, heap)

\* one iteration of while (read_bytes < size)
GetRandom ==
    /\ pc = "loop"
    /\ \/ \E count \in ReadCounts(Len(bytes) - read_bytes), byte \in RandomBytes :
            /\ n' = count
            /\ bytes' = [i \in 1..Len(bytes) |->
                            IF i > read_bytes /\ i <= read_bytes + count
                            THEN byte ELSE bytes[i]]
            /\ read_bytes' = read_bytes + count
            /\ pc' = IF read_bytes + count < Len(bytes) THEN "loop" ELSE "encode"
            /\ UNCHANGED <<errno, retries>>
       \/ \E e \in Errnos :
            /\ Transient(e) => retries < MaxRetry
            /\ n' = -1
            /\ errno' = e
            /\ retries' = IF Transient(e) THEN retries + 1 ELSE retries
            /\ pc' = AfterFailure(e)
            /\ UNCHANGED <<bytes, read_bytes>>
    /\ UNCHANGED <<s, res, op>>

\* after the loop: bin_rand, hex_rand, useEntropy(hex_rand), return *this;
\* for Generate also .wordList(Wordlist::english()).mnemonic().  The locals
\* are gone on return; op.hard keeps whether the loop was left on a failure.
GenEncode ==
    /\ pc = "encode"
    /\ \E tail \in {0, MaxTail} :
        LET bin_rand == CStr(bytes \o Repeat(1, tail), 1)
            hex_rand == base16Encode(bin_rand)
            b == useEntropy(s, hex_rand)
        IN  IF ~validateEntropy(hex_rand)
            THEN s' = s /\ res' = Threw("Invalid Entropy")
            ELSE IF op.name = "Generate"
            THEN /\ s' = [b EXCEPT !.m_wordList = "english"]
                 /\ res' = mnemonic([b EXCEPT !.m_wordList = "english"], "segfault")
            ELSE s' = b /\ res' = Chained
    /\ op' = [op EXCEPT !.hard = read_bytes < Len(bytes)]
    /\ pc' = "idle"
    /\ bytes' = <<>>
    /\ read_bytes' = 0
    /\ n' = 0
    /\ errno' = "none"
    /\ retries' = 0

\* the objects of the last scenario go out of scope
Drop ==
    /\ pc = "idle"
    /\ op # NoOp
    /\ s' = NoSession
    /\ res' = NoResult
    /\ op' = NoOp
    /\ GenUnchanged

Next ==
    \/ NewSession
    \/ UseEntropy
    \/ WordList
    \/ Finalize
    \/ EntropyApi
    \/ WordsApi
    \/ GenerateApi
    \/ GenerateSecureEntropy
    \/ GetRandom
    \/ GenEncode
    \/ Drop

Spec == Init /\ [][Next]_vars

\* The random source on its own.  The loop is running code: an iteration that
\* can be taken is taken.
NextGen ==
    \/ NewSession
    \/ GenerateApi
    \/ GenerateSecureEntropy
    \/ GetRandom
    \/ GenEncode
    \/ Drop

LiveSpec == Init /\ [][NextGen]_vars /\ WF_vars(GetRandom)

---------------------------------------------------------------------------
(* Properties. *)

TableCounts == {12, 15, 18, 21, 24}

\* the phrase of the last Words call, as Words splits it
LastWords == Split(op.phrase)

\* C1: round trip.  Decoding, with checksum verification and against the same
\* wordlist, the words that Entropy(e) produced returns a Mnemonic whose
\* entropy equals e.
C1_RoundTrip ==
    (op.name = "Words" /\ op.mut = "same" /\ op.verify /\ op.wl = "english")
        => (res.kind = "mnemonic" /\ res.mn.entropy = op.e)

\* C2: decoding a phrase of a valid word count that holds a word the wordlist
\* does not know is an error; no Mnemonic is returned.
C2_UnknownWordIsError ==
    (/\ op.name = "Words"
     /\ op.wl = "english"
     /\ Len(LastWords) \in TableCounts
     /\ \E i \in 1..Len(LastWords) : findIndex(LastWords[i]) < 0)
        => res.kind = "error"

\* C3: a phrase produced by Entropy(e) with one bit of its checksum portion
\* flipped is rejected with the checksum error when decoded with verification.
C3_ChecksumFlipRejected ==
    (op.name = "Words" /\ op.mut = "flip" /\ op.verify /\ op.wl = "english")
        => (res.kind = "error" /\ res.msg = "Entropy checksum match failed!")

\* C4: a wordCount outside [12,24] or not a multiple of 3 constructs no
\* session and is reported as an error, also when it is the number of words
\* the phrase given to Words splits into.
C4_BadWordCountFails ==
    /\ (op.name \in {"BIP39", "Generate"} /\ op.W \notin TableCounts)
            => (res.kind = "error" /\ s = NoSession /\ pc = "idle")
    /\ (op.name = "Words" /\ Len(LastWords) \notin TableCounts)
            => (res.kind = "error" /\ s = NoSession)

C4_Witness ==
    /\ op.name = "Words"
    /\ op.mut = "gap"
    /\ Len(LastWords) = 13
    /\ res = Threw("Mnemonic words count")

\* C5: every constructed session has the widths of its row of the table
\* 12-128, 15-160, 18-192, 21-224, 24-256 with checksumBits = entropyBits/32,
\* and Entropy(e) on a valid e constructs the session whose entropyBits is
\* the bit length of e.
C5_Table ==
    /\ s.m_wordsCount # 0 =>
        /\ <<s.m_wordsCount, s.m_entropyBits>> \in
                {<<12, 128>>, <<15, 160>>, <<18, 192>>, <<21, 224>>, <<24, 256>>}
        /\ s.m_checksumBits * 32 = s.m_entropyBits
        /\ s.m_overallBits = s.m_entropyBits + s.m_checksumBits
    /\ (op.name = "Entropy" /\ isHex(op.e) /\ Len(op.e) * 4 \in {128, 160, 192, 224, 256})
            => (s.m_wordsCount # 0 /\ s.m_entropyBits = Len(op.e) * 4)

C5_Witness ==
    /\ op.name = "Entropy"
    /\ Len(op.e) = 64
    /\ s.m_wordsCount = 24
    /\ s.m_entropyBits = 256
    /\ s.m_checksumBits = 8

\* C6: Generate(wordCount), wordCount in the table, with every byte delivered
\* by the OS, returns a Mnemonic of exactly wordCount words, each in the
\* wordlist and each index in 0..2047.
C6_GenerateWordCount ==
    (op.name = "Generate" /\ pc = "idle" /\ op.W \in TableCounts /\ ~op.hard)
        => /\ res.kind = "mnemonic"
           /\ Len(res.mn.words) = op.W
           /\ Len(res.mn.wordsIndex) = op.W
           /\ \A i \in 1..Len(res.mn.words) :
                /\ res.mn.wordsIndex[i] \in 0..2047
                /\ findIndex(res.mn.words[i]) = res.mn.wordsIndex[i]

\* C7: when the loop of generateSecureEntropy is left on a failure before all
\* bytes were read, the call fails: it neither binds entropy nor yields a
\* Mnemonic.
C7_HardFailureIsFatal ==
    (op.name \in {"Generate", "generateSecureEntropy"} /\ pc = "idle" /\ op.hard)
        => res.kind = "error"

\* C8: mnemonic() on a session without bound entropy or without a bound
\* wordlist fails with an error and never reads through the unbound wordlist.
C8_FinalizeOrdering ==
    (op.name = "mnemonic" /\ (s.m_entropy = <<>> \/ s.m_wordList = "unbound"))
        => (res.kind = "error" /\ ~res.wild)

\* C9: every Mnemonic mnemonic() returns for a session constructed with
\* wordCount W has W words, W indices and W raw chunks, and entropy was bound
\* to the session once.
C9_LengthIsWordCount ==
    (op.name = "mnemonic" /\ res.kind = "mnemonic" /\ s.m_wordList = "english")
        => /\ Len(res.mn.words) = s.m_wordsCount
           /\ Len(res.mn.wordsIndex) = s.m_wordsCount
           /\ Len(res.mn.rawBinaryChunks) = s.m_wordsCount
           /\ res.mn.m_wordsCount = s.m_wordsCount
           /\ s.binds <= 1

\* C10: the loop of generateSecureEntropy stays in the loop without progress
\* only after EINTR or EAGAIN, leaves it on the first failure of any other
\* kind, and always ends: with all bytes read or with such a failure seen.
C10_LoopTerminates ==
    /\ [][(pc = "loop" /\ pc' = "loop" /\ read_bytes' = read_bytes)
            => (n' = -1 /\ errno' \in {"EINTR", "EAGAIN"})]_vars
    /\ [][(pc = "loop" /\ n' = -1 /\ errno' \notin {"EINTR", "EAGAIN"})
            => pc' = "encode"]_vars
    /\ (pc = "loop") ~>
            (/\ pc = "encode"
             /\ \/ read_bytes = Len(bytes)
                \/ (n = -1 /\ errno \notin {"EINTR", "EAGAIN"}))

C10_Witness ==
    /\ pc = "encode"
    /\ retries >= 1
    /\ read_bytes > 0
    /\ read_bytes < Len(bytes)
    /\ n = -1
    /\ errno = "EIO"

====
